---- MODULE Spec2Model ----
(***************************************************************************)
(* A model of firstbase_validation.py: the schema index, the reference     *)
(* resolver, the structural validator, the issue model and the validation  *)
(* runner (validate_files, print_summary, main).                           *)
(*                                                                         *)
(* Strings.  A Python string is modelled as the sequence of its atoms.  An *)
(* atom is a non-empty run of characters; the characters and words the     *)
(* code's string operations look for are always atoms of their own: ".",   *)
(* "[", "]", "*", "/", every decimal digit, the marker "Standard" and the  *)
(* pointer prefix "#/definitions/".  No other atom contains one of them.   *)
(* A character outside ASCII is an atom written as its code point,         *)
(* "U+0663".                                                               *)
(* The empty string is << >>, concatenation is \o, and split('.'), the     *)
(* substring test for the marker, the prefix removal and the index regex   *)
(* are computed on the atoms exactly as the code computes them on the      *)
(* characters.                                                             *)
(*                                                                         *)
(* JSON values.  A parsed JSON value is a record tagged with the name of   *)
(* its Python type (type(val).__name__).  A dict keeps its insertion order *)
(* as a sequence of <<key, value>> pairs with distinct keys.               *)
(***************************************************************************)
EXTENDS Integers, Sequences, FiniteSets, TLC

VARIABLES
    t_pc, t_val, t_spec, t_path, t_out,          \* _check_type applied to one value
    i_pc, i_defs, i_index, i_query, i_res,       \* build_schema_index and resolve
    n_pc, n_path, n_alt, n_out, n_altout, n_twice, \* Issue.normalized_path
    v_defs, v_index,          \* the Validator: self.defs, self.index
    v_obj, v_def, v_path,     \* the arguments of the outermost validate call
    vpc, call, stack, issues, \* the run of validate, call by call
    args, verbose,            \* main: sys.argv[1:] as main rewrites it, --verbose
    cache, remote, firstbase, \* the cache files, what the URLs serve, firstbase_json
    dumped,                   \* what dump_schema printed
    pc, swagger, skey, ti_def, files, fidx, results, all_success, status \* main

typeVars == <<t_pc, t_val, t_spec, t_path, t_out>>
indexVars == <<i_pc, i_defs, i_index, i_query, i_res>>
normVars == <<n_pc, n_path, n_alt, n_out, n_altout, n_twice>>
valVars == <<v_defs, v_index, v_obj, v_def, v_path, vpc, call, stack, issues>>
mainVars ==
    <<args, verbose, cache, remote, firstbase, dumped,
      pc, swagger, skey, ti_def, files, fidx, results, all_success, status>>
vars == <<typeVars, indexVars, normVars, valVars, mainVars>>

-----------------------------------------------------------------------------
(* Bounds of the model.                                                    *)

\* Longest path (in atoms) given to normalized_path.
MaxPathLen == 5
\* Most definitions in a schema given to build_schema_index.
MaxDefs == 3
\* Deepest nesting of objects below the fields of a validated document.
MaxNest == 2
\* The frames the interpreter's recursion limit (sys.getrecursionlimit(),
\* 1000 by default) leaves to the outermost call of validate, its own frame
\* included, scaled to the documents of the model.
RecursionLimit == 8
\* Most input files of a run.
MaxFiles == 2

-----------------------------------------------------------------------------
(* Strings as atom sequences.                                              *)

DigitAtoms == <<"0", "1", "2", "3", "4", "5", "6", "7", "8", "9">>

\* Decimal digits of other scripts: ARABIC-INDIC DIGIT THREE and FULLWIDTH
\* DIGIT ONE stand for them.
OtherDigitAtoms == {"U+0663", "U+FF11"}

\* \d of the regex, on one atom: the pattern is a str pattern, so \d matches
\* the decimal digits of every script.
IsDigit(a) == (\E d \in 1..10 : DigitAtoms[d] = a) \/ a \in OtherDigitAtoms

\* str(i) for a natural number, as in f"{full_path}[{i}]".
RECURSIVE Digits(_)
Digits(i) ==
    IF i < 10 THEN <<DigitAtoms[i + 1]>>
    ELSE Digits(i \div 10) \o <<DigitAtoms[(i % 10) + 1]>>

\* Position of the last "." of s, 0 when s has none.
LastDot(s) ==
    IF \E i \in 1..Len(s) : s[i] = "."
    THEN CHOOSE i \in 1..Len(s) : s[i] = "." /\ \A j \in (i + 1)..Len(s) : s[j] # "."
    ELSE 0

\* name.split(".")[-1]
ShortName(name) == SubSeq(name, LastDot(name) + 1, Len(name))

\* "Standard" in name
HasStandard(name) == \E i \in 1..Len(name) : name[i] = "Standard"

\* ref_or_name.replace("#/definitions/", ""): every occurrence is removed.
StripPointer(s) == SelectSeq(s, LAMBDA a : a # "#/definitions/")

\* The characters of an ASCII string, one by one.
RECURSIVE Chars(_)
Chars(s) ==
    IF s = << >> THEN << >>
    ELSE [i \in 1..Len(Head(s)) |-> SubSeq(Head(s), i, i)] \o Chars(Tail(s))

UpperCase == "ABCDEFGHIJKLMNOPQRSTUVWXYZ"
LowerCase == "abcdefghijklmnopqrstuvwxyz"
\* str.lower(), on one character and on a string; the result is a sequence
\* of characters.
LowerChar(c) ==
    IF \E i \in 1..Len(UpperCase) : SubSeq(UpperCase, i, i) = c
    THEN LET i == CHOOSE i \in 1..Len(UpperCase) : SubSeq(UpperCase, i, i) = c
         IN SubSeq(LowerCase, i, i)
    ELSE c
Lower(s) == [i \in 1..Len(Chars(s)) |-> LowerChar(Chars(s)[i])]

\* a in b, for sequences of characters
Contains(b, a) == \E i \in 0..(Len(b) - Len(a)) : SubSeq(b, i + 1, i + Len(a)) = a

\* s.endswith(suffix)
EndsWith(s, suffix) ==
    LET c == Chars(s)
        d == Chars(suffix)
    IN Len(c) >= Len(d) /\ SubSeq(c, Len(c) - Len(d) + 1, Len(c)) = d

-----------------------------------------------------------------------------
(* JSON values.                                                            *)

JNull == [t |-> "NoneType"]
JBool(b) == [t |-> "bool", b |-> b]
JInt(n) == [t |-> "int", n |-> n]
\* A float, held in tenths: JFloat(15) is 1.5.
JFloat(tenths) == [t |-> "float", f |-> tenths]
JStr(s) == [t |-> "str", s |-> s]
JList(items) == [t |-> "list", items |-> items]
JDict(kv) == [t |-> "dict", kv |-> kv]

IsDict(v) == v.t = "dict"
IsList(v) == v.t = "list"
IsNone(v) == v.t = "NoneType"

\* The keys of a dict, in iteration order.
Keys(d) == [i \in 1..Len(d.kv) |-> d.kv[i][1]]
HasKey(d, k) == \E i \in 1..Len(d.kv) : d.kv[i][1] = k
\* d[k] for a key the dict holds.
Get(d, k) == d.kv[CHOOSE i \in 1..Len(d.kv) : d.kv[i][1] = k][2]

\* Python's bool(v) for a JSON value.
Truthy(v) ==
    CASE v.t = "NoneType" -> FALSE
      [] v.t = "bool" -> v.b
      [] v.t = "int" -> v.n # 0
      [] v.t = "float" -> v.f # 0
      [] v.t = "str" -> v.s # << >>
      [] v.t = "list" -> v.items # << >>
      [] v.t = "dict" -> v.kv # << >>

IsNumeric(v) == v.t \in {"bool", "int", "float"}
\* The number a bool, int or float stands for, in tenths.
Tenths(v) ==
    CASE v.t = "bool" -> (IF v.b THEN 10 ELSE 0)
      [] v.t = "int" -> 10 * v.n
      [] v.t = "float" -> v.f

\* a == b of Python, for a scalar b (the members of an enum are scalars):
\* bool, int and float compare by value (True == 1), other types only with
\* their own.
PyEq(a, b) ==
    IF IsNumeric(a) /\ IsNumeric(b) THEN Tenths(a) = Tenths(b)
    ELSE a.t = b.t /\ a = b

\* val in enum
InEnum(val, enum) == \E i \in 1..Len(enum) : PyEq(val, enum[i])

\* enum[:6]
FirstSix(enum) == SubSeq(enum, 1, IF Len(enum) < 6 THEN Len(enum) ELSE 6)

-----------------------------------------------------------------------------
(* Issues.                                                                 *)

Issue(category, path, message) ==
    [category |-> category, path |-> path, message |-> message]

\* re.sub(r"\[\d+\]", "[*]", path) from position i on: the leftmost match is
\* replaced and the scan goes on after it.
RECURSIVE SubIndexFrom(_, _)
SubIndexFrom(path, i) ==
    IF i > Len(path) THEN << >>
    ELSE IF path[i] = "["
            /\ \E j \in (i + 2)..Len(path) :
                 /\ path[j] = "]"
                 /\ \A k \in (i + 1)..(j - 1) : IsDigit(path[k])
         THEN LET j == CHOOSE j \in (i + 2)..Len(path) :
                         /\ path[j] = "]"
                         /\ \A k \in (i + 1)..(j - 1) : IsDigit(path[k])
              IN <<"[", "*", "]">> \o SubIndexFrom(path, j + 1)
         ELSE <<path[i]>> \o SubIndexFrom(path, i + 1)

\* A single-digit pattern, \[\d\]: what normalized_path would be without
\* the + of the regex.
RECURSIVE SubOneDigitFrom(_, _)
SubOneDigitFrom(path, i) ==
    IF i > Len(path) THEN << >>
    ELSE IF i + 2 <= Len(path) /\ path[i] = "[" /\ IsDigit(path[i + 1])
            /\ path[i + 2] = "]"
         THEN <<"[", "*", "]">> \o SubOneDigitFrom(path, i + 3)
         ELSE <<path[i]>> \o SubOneDigitFrom(path, i + 1)

normalized_path_onedigit(path) == SubOneDigitFrom(path, 1)

\* Issue.normalized_path
normalized_path(path) == SubIndexFrom(path, 1)

-----------------------------------------------------------------------------
(* Type check.                                                             *)

\* type_map.get(expected) is set: the declared type is one the map knows.
KnownType(expected) ==
    expected \in {"string", "boolean", "integer", "number", "array", "object"}

\* isinstance(val, type_map[expected]); a Python bool is an int.
IsInstance(val, expected) ==
    CASE expected = "string" -> val.t = "str"
      [] expected = "boolean" -> val.t = "bool"
      [] expected = "integer" -> val.t \in {"int", "bool"}
      [] expected = "number" -> val.t \in {"int", "bool", "float"}
      [] expected = "array" -> val.t = "list"
      [] expected = "object" -> val.t = "dict"

\* Validator._check_type.  prop_spec.type is "" when the property declares
\* no type (prop_spec.get("type") is None; both are falsy).
check_type(val, prop_spec, path) ==
    IF IsNone(val) THEN << >>
    ELSE IF prop_spec.type = "" THEN << >>
    ELSE IF KnownType(prop_spec.type) /\ ~IsInstance(val, prop_spec.type)
         THEN IF prop_spec.type \in {"integer", "number"} /\ val.t = "bool"
              THEN <<Issue("TYPE_MISMATCH", path,
                           <<"expected ", prop_spec.type, ", got boolean">>)>>
              ELSE <<Issue("TYPE_MISMATCH", path,
                           <<"expected ", prop_spec.type, ", got ", val.t>>)>>
         ELSE << >>

-----------------------------------------------------------------------------
(* Schema index and reference resolver.  A schema's definitions are a      *)
(* sequence of records in the dict's iteration order, with distinct names. *)

DefNames(defs) == {defs[i].name : i \in 1..Len(defs)}
\* name in self.defs
InDefs(defs, name) == \E i \in 1..Len(defs) : defs[i].name = name
\* self.defs[name]
DefOf(defs, name) == defs[CHOOSE i \in 1..Len(defs) : defs[i].name = name]

\* The index is a function from the short names it holds to full names.
EmptyIndex == [s \in {} |-> << >>]
InIndex(index, short) == short \in DOMAIN index
Put(index, short, name) ==
    [s \in (DOMAIN index) \cup {short} |-> IF s = short THEN name ELSE index[s]]

\* The loop body with the marker test dropped: first-seen always stays.
IndexStepFirstSeen(index, name) ==
    IF ~InIndex(index, ShortName(name)) THEN Put(index, ShortName(name), name)
    ELSE index

\* The body of build_schema_index's loop for one definition name.
IndexStep(index, name) ==
    IF HasStandard(name) \/ ~InIndex(index, ShortName(name))
    THEN Put(index, ShortName(name), name)
    ELSE index

\* The index after the first n definitions.
RECURSIVE IndexAfter(_, _)
IndexAfter(defs, n) ==
    IF n = 0 THEN EmptyIndex ELSE IndexStep(IndexAfter(defs, n - 1), defs[n].name)

build_schema_index(defs) == IndexAfter(defs, Len(defs))

\* Validator.resolve; the result is << >> for None (no definition has the
\* empty name, and callers only test the result's truth).
resolve(defs, index, ref_or_name) ==
    LET name == StripPointer(ref_or_name)
    IN IF InDefs(defs, name) THEN name
       ELSE IF InIndex(index, ShortName(name)) THEN index[ShortName(name)]
       ELSE << >>

-----------------------------------------------------------------------------
(* Property specs and definitions of a schema.                             *)

\* A property spec: type is "" when absent; hasRef, hasEnum and itemsHasRef
\* say whether the keys "$ref", "enum" and items."$ref" are present.
Prop(type, hasRef, ref, hasEnum, enum, itemsHasRef, itemsRef) ==
    [type |-> type, hasRef |-> hasRef, ref |-> ref, hasEnum |-> hasEnum,
     enum |-> enum, itemsHasRef |-> itemsHasRef, itemsRef |-> itemsRef]

PType(type) == Prop(type, FALSE, << >>, FALSE, << >>, FALSE, << >>)
PRef(ref) == Prop("", TRUE, ref, FALSE, << >>, FALSE, << >>)
PEnum(type, enum) == Prop(type, FALSE, << >>, TRUE, enum, FALSE, << >>)
PArrayOf(ref) == Prop("array", FALSE, << >>, FALSE, << >>, TRUE, ref)

\* A definition: its full name, whether it has the keys "properties" and
\* "enum", its properties in order as <<key, spec>> pairs, its enum
\* (<< >> when it has none: get_enum's None and an empty list are both
\* falsy, and only the truth of the enum is tested), and the other keys it
\* has ("type", "description", ...), which no code reads but which make the
\* dict non-empty.
Definition(name, hasProps, props, hasEnum, enum, others) ==
    [name |-> name, hasProps |-> hasProps, props |-> props,
     hasEnum |-> hasEnum, enum |-> enum, others |-> others]

\* A definition that has the key "properties" when it has properties and
\* the key "enum" when it has members, and no other key; without either
\* it is the empty dict.
Def(name, props, enum) ==
    Definition(name, props # << >>, props, enum # << >>, enum, {})

\* if d: a dict is true when it has a key.
NonEmptyDict(d) == d.hasProps \/ d.hasEnum \/ d.others # {}

Pointer(name) == <<"#/definitions/">> \o name

-----------------------------------------------------------------------------
(* Structural validator.  defs and index are the Validator's self.defs and *)
(* self.index.                                                             *)

\* self.get_props(def_name), as <<key, spec>> pairs.
get_props(defs, def_name) ==
    IF InDefs(defs, def_name) THEN DefOf(defs, def_name).props ELSE << >>

\* self.get_enum(def_name); << >> when the definition has no enum.
get_enum(defs, def_name) ==
    IF InDefs(defs, def_name) THEN DefOf(defs, def_name).enum ELSE << >>

\* key in allowed
Allowed(props, key) == \E i \in 1..Len(props) : props[i][1] = key
\* props[key]
PropOf(props, key) == props[CHOOSE i \in 1..Len(props) : props[i][1] = key][2]

\* full_path = f"{path}.{key}" if path else key
FullPath(path, key) == IF path # << >> THEN path \o <<".">> \o key ELSE key

\* item_path = f"{full_path}[{i}]", i counted from 0
ItemPath(full_path, i) == full_path \o <<"[">> \o Digits(i) \o <<"]">>

\* resolved = self.resolve(def_name) if def_name not in self.defs else def_name
Resolved(defs, index, def_name) ==
    IF InDefs(defs, def_name) THEN def_name ELSE resolve(defs, index, def_name)

NotFoundIssue(def_name, path) ==
    Issue("SCHEMA_NOT_FOUND", path, <<"'">> \o def_name \o <<"' not in spec">>)

UnknownFieldIssue(resolved, props, full_path) ==
    Issue("UNKNOWN_FIELD", full_path,
          <<"not in '">> \o ShortName(resolved) \o <<"' (has ">>
              \o Digits(Len(props)) \o <<" properties)">>)

\* The message of an INVALID_ENUM issue: the value, the first six members
\* and the ellipsis.
EnumMessage(val, enum, dots) == <<"'", val, "' not in ", FirstSix(enum), dots>>

\* Lines 124-129: the inline enum of a property.
InlineEnumIssues(val, prop_spec, full_path) ==
    IF prop_spec.hasEnum /\ ~IsNone(val) /\ ~InEnum(val, prop_spec.enum)
    THEN <<Issue("INVALID_ENUM", full_path,
                 EnumMessage(val, prop_spec.enum,
                             IF Len(prop_spec.enum) > 6 THEN "..." ELSE ""))>>
    ELSE << >>

\* Lines 137-142: a $ref to an enum definition; the value is a wrapper
\* object holding the scalar under "Value".
WrapperInner(val) == IF HasKey(val, <<"Value">>) THEN Get(val, <<"Value">>) ELSE JNull
WrapperEnumIssues(val, child_enum, full_path) ==
    LET inner == WrapperInner(val)
    IN IF ~IsNone(inner) /\ ~InEnum(inner, child_enum)
       THEN <<Issue("INVALID_ENUM", full_path \o <<".", "Value">>,
                    EnumMessage(inner, child_enum,
                                IF Len(child_enum) > 6 THEN "..." ELSE ""))>>
       ELSE << >>

\* Lines 156-160: one element of an array of an enum definition.
ItemInner(item) == IF IsDict(item) THEN WrapperInner(item) ELSE item
ItemEnumIssues(item, child_enum, item_path) ==
    LET inner == ItemInner(item)
    IN IF ~IsNone(inner) /\ ~InEnum(inner, child_enum)
       THEN <<Issue("INVALID_ENUM", item_path, EnumMessage(inner, child_enum, "..."))>>
       ELSE << >>

RECURSIVE ArrayEnumIssues(_, _, _, _)
ArrayEnumIssues(items, child_enum, full_path, n) ==
    IF n = 0 THEN << >>
    ELSE ArrayEnumIssues(items, child_enum, full_path, n - 1)
         \o ItemEnumIssues(items[n], child_enum, ItemPath(full_path, n - 1))

\* Line 132 and line 147: which of the two recursion branches a field takes.
RefBranch(prop_spec, val) == prop_spec.hasRef /\ IsDict(val)
ArrayBranch(prop_spec, val) ==
    ~RefBranch(prop_spec, val) /\ prop_spec.type = "array" /\ IsList(val)

\* The definition the field's value (or its elements) is validated
\* against, << >> when the field has none or it does not resolve.
ChildDef(defs, index, prop_spec, val) ==
    IF RefBranch(prop_spec, val) THEN resolve(defs, index, prop_spec.ref)
    ELSE IF ArrayBranch(prop_spec, val) /\ prop_spec.itemsHasRef
         THEN resolve(defs, index, prop_spec.itemsRef)
    ELSE << >>

\* The issues of one field that need no recursive call: unknown field, type
\* check, inline enum, and the enum checks of a referenced enum definition.
LocalIssues(defs, index, resolved, key, val, path) ==
    LET props == get_props(defs, resolved)
        full_path == FullPath(path, key)
    IN IF ~Allowed(props, key)
       THEN <<UnknownFieldIssue(resolved, props, full_path)>>
       ELSE LET prop_spec == PropOf(props, key)
                child_def == ChildDef(defs, index, prop_spec, val)
                child_enum == get_enum(defs, child_def)
            IN check_type(val, prop_spec, full_path)
               \o InlineEnumIssues(val, prop_spec, full_path)
               \o (IF child_def # << >> /\ child_enum # << >>
                   THEN (IF RefBranch(prop_spec, val)
                         THEN WrapperEnumIssues(val, child_enum, full_path)
                         ELSE ArrayEnumIssues(val.items, child_enum, full_path,
                                              Len(val.items)))
                   ELSE << >>)

\* The field's value is validated by a recursive call (line 144).
RecursesIntoValue(defs, index, resolved, key, val) ==
    LET props == get_props(defs, resolved)
    IN /\ Allowed(props, key)
       /\ RefBranch(PropOf(props, key), val)
       /\ ChildDef(defs, index, PropOf(props, key), val) # << >>
       /\ get_enum(defs, ChildDef(defs, index, PropOf(props, key), val)) = << >>

\* The field's object elements are validated by recursive calls (line 162).
RecursesIntoItems(defs, index, resolved, key, val) ==
    LET props == get_props(defs, resolved)
    IN /\ Allowed(props, key)
       /\ ArrayBranch(PropOf(props, key), val)
       /\ ChildDef(defs, index, PropOf(props, key), val) # << >>
       /\ get_enum(defs, ChildDef(defs, index, PropOf(props, key), val)) = << >>

-----------------------------------------------------------------------------
(* The interpreter's stack.  A call of a Python function takes a frame,    *)
(* and so does a C-level call that guards against recursion: the call of a *)
(* class, repr of a value, isinstance against a tuple of types.  A call    *)
(* whose frame would lie above the recursion limit raises RecursionError.  *)
(* The operators count the frames an operation of validate needs above     *)
(* validate's own frame.                                                   *)

\* What the C-level call inside a helper (dict.get, str.replace, isinstance)
\* adds: a frame until the interpreter has specialised the call, none
\* afterwards.
CallOverheads == {0, 1}

\* self.resolve(...), self.get_props(...), self.get_enum(...): the helper's
\* frame and the call inside it.
HelperFrames(c) == 1 + c

\* Issue(...): the call of the class and the frame of __init__.
IssueFrames == 2

Max(S) == CHOOSE x \in S : \A y \in S : y <= x

\* repr(v): a frame for v and, for a list or a dict, the frames of its
\* deepest element.
RECURSIVE ReprFrames(_)
ReprFrames(v) ==
    IF IsList(v)
    THEN 1 + Max({0} \cup {ReprFrames(v.items[i]) : i \in 1..Len(v.items)})
    ELSE IF IsDict(v)
    THEN 1 + Max({0} \cup {ReprFrames(v.kv[i][2]) : i \in 1..Len(v.kv)})
    ELSE 1

\* f"{v}": str(v) of a list or a dict calls repr(v); formatting a scalar
\* takes no more frames than the Issue(...) that follows it.
FormatFrames(v) == IF IsList(v) \/ IsDict(v) THEN 1 + ReprFrames(v) ELSE 0

\* An INVALID_ENUM issue: the value and the first six members are
\* formatted, then the Issue is built.
EnumIssueFrames(inner, enum) ==
    Max({IssueFrames, FormatFrames(inner), FormatFrames(JList(FirstSix(enum)))})

\* self._check_type(val, prop_spec, full_path): its frame; prop_spec.get
\* and isinstance inside it, against a tuple of types for "number"; the
\* Issue of a mismatch.
CheckTypeFrames(val, prop_spec, c) ==
    IF IsNone(val) THEN 1
    ELSE IF check_type(val, prop_spec, << >>) # << >> THEN 1 + IssueFrames
    ELSE IF prop_spec.type = "number" THEN 2 + c
    ELSE 1 + c

\* Lines 99-104: resolve and the Issue of a definition that is not found,
\* or get_props.
EnterFrames(defs, index, def_name, c) ==
    IF Resolved(defs, index, def_name) = << >> THEN IssueFrames
    ELSE HelperFrames(c)

\* Lines 111-160 for one field, its recursive calls of validate left out:
\* the most frames one of its operations needs.
FieldFrames(defs, index, resolved, key, val, c) ==
    LET props == get_props(defs, resolved)
    IN IF ~Allowed(props, key) THEN IssueFrames
       ELSE LET prop_spec == PropOf(props, key)
                child_def == ChildDef(defs, index, prop_spec, val)
                child_enum == get_enum(defs, child_def)
            IN Max({CheckTypeFrames(val, prop_spec, c)}
                   \cup (IF InlineEnumIssues(val, prop_spec, << >>) # << >>
                         THEN {EnumIssueFrames(val, prop_spec.enum)} ELSE {})
                   \cup (IF RefBranch(prop_spec, val)
                            \/ (ArrayBranch(prop_spec, val) /\ prop_spec.itemsHasRef)
                         THEN {HelperFrames(c)} ELSE {})
                   \cup (IF RefBranch(prop_spec, val) /\ child_def # << >>
                            /\ child_enum # << >>
                            /\ WrapperEnumIssues(val, child_enum, << >>) # << >>
                         THEN {EnumIssueFrames(WrapperInner(val), child_enum)}
                         ELSE {})
                   \cup (IF ArrayBranch(prop_spec, val) /\ child_def # << >>
                            /\ child_enum # << >>
                         THEN {EnumIssueFrames(ItemInner(val.items[n]), child_enum) :
                                 n \in {m \in 1..Len(val.items) :
                                          ItemEnumIssues(val.items[m], child_enum, << >>)
                                              # << >>}}
                         ELSE {}))

-----------------------------------------------------------------------------
(* Validator.validate as a function: the issues a call returns.            *)

RECURSIVE validate(_, _, _, _, _)
RECURSIVE FieldsFrom(_, _, _, _, _, _)
RECURSIVE ItemsFrom(_, _, _, _, _, _)

\* The issues of the elements n.. of a list validated against child_def.
ItemsFrom(defs, index, items, child_def, full_path, n) ==
    IF n > Len(items) THEN << >>
    ELSE (IF IsDict(items[n])
          THEN validate(defs, index, items[n], child_def, ItemPath(full_path, n - 1))
          ELSE << >>)
         \o ItemsFrom(defs, index, items, child_def, full_path, n + 1)

\* The issues of the fields k.. of obj, in iteration order (the loop of
\* lines 110-162).
FieldsFrom(defs, index, obj, resolved, path, k) ==
    IF k > Len(obj.kv) THEN << >>
    ELSE LET key == obj.kv[k][1]
             val == obj.kv[k][2]
             child_def == ChildDef(defs, index, PropOf(get_props(defs, resolved), key), val)
         IN LocalIssues(defs, index, resolved, key, val, path)
            \o (IF RecursesIntoValue(defs, index, resolved, key, val)
                THEN validate(defs, index, val, child_def, FullPath(path, key))
                ELSE IF RecursesIntoItems(defs, index, resolved, key, val)
                THEN ItemsFrom(defs, index, val.items, child_def, FullPath(path, key), 1)
                ELSE << >>)
            \o FieldsFrom(defs, index, obj, resolved, path, k + 1)

\* Validator.validate
validate(defs, index, obj, def_name, path) ==
    LET resolved == Resolved(defs, index, def_name)
    IN IF resolved = << >> THEN <<NotFoundIssue(def_name, path)>>
       ELSE IF ~IsDict(obj) THEN << >>
       ELSE FieldsFrom(defs, index, obj, resolved, path, 1)

-----------------------------------------------------------------------------
(* _check_type applied to one value.                                       *)

TypeValues ==
    {JNull, JBool(TRUE), JBool(FALSE), JInt(0), JInt(1), JFloat(15),
     JStr(<<"A">>), JStr(<< >>), JList(<< >>), JList(<<JInt(1)>>),
     JDict(<< >>), JDict(<< <<<<"Value">>, JInt(1)>> >>)}

TypeNames ==
    {"", "string", "boolean", "integer", "number", "array", "object", "file"}

TypePaths ==
    {<<"TradeItem", ".", "Qty">>,
     <<"TradeItem", ".", "Items", "[", "0", "]", ".", "Qty">>}

TypeIdle ==
    /\ t_pc = "idle" /\ t_val = JNull /\ t_spec = PType("")
    /\ t_path = << >> /\ t_out = << >>

TypeInit ==
    /\ t_pc = "ready"
    /\ t_val \in TypeValues
    /\ t_spec \in {PType(ty) : ty \in TypeNames}
    /\ t_path \in TypePaths
    /\ t_out = << >>

CheckType ==
    /\ t_pc = "ready"
    /\ t_out' = check_type(t_val, t_spec, t_path)
    /\ t_pc' = "done"
    /\ UNCHANGED <<t_val, t_spec, t_path>>

-----------------------------------------------------------------------------
(* build_schema_index and resolve applied to one schema.                   *)

IndexNames ==
    {<<"TradeItem">>,
     <<"GS1", ".", "TradeItem">>,
     <<"GS1", ".", "Standard", ".", "TradeItem">>,
     <<"GDSN", ".", "Standard", ".", "TradeItem">>,
     <<"GS1", ".", "Brand">>,
     <<"GS1", ".", "Standard", "Unit">>,
     <<"Standard", "Unit">>}

\* Sequences of at most n definitions with distinct names.
DefSeqs(n) ==
    {ds \in UNION {[1..k -> {Def(nm, << >>, << >>) : nm \in IndexNames}] : k \in 0..n} :
        \A a, b \in 1..Len(ds) : a # b => ds[a].name # ds[b].name}

IndexQueries ==
    IndexNames
    \cup {ShortName(nm) : nm \in IndexNames}
    \cup {Pointer(ShortName(nm)) : nm \in IndexNames}
    \cup {<<"Nope">>}

IndexIdle ==
    /\ i_pc = "idle" /\ i_defs = << >> /\ i_index = EmptyIndex
    /\ i_query = << >> /\ i_res = << >>

IndexInit ==
    /\ i_pc = "ready"
    /\ i_defs \in DefSeqs(MaxDefs)
    /\ i_index = EmptyIndex
    /\ i_query = << >>
    /\ i_res = << >>

\* Validator.__init__: self.index = build_schema_index(spec)
BuildIndex ==
    /\ i_pc = "ready"
    /\ i_index' = build_schema_index(i_defs)
    /\ i_pc' = "built"
    /\ UNCHANGED <<i_defs, i_query, i_res>>

Resolve ==
    /\ i_pc = "built"
    /\ \E q \in IndexQueries :
         /\ i_query' = q
         /\ i_res' = resolve(i_defs, i_index, q)
    /\ i_pc' = "resolved"
    /\ UNCHANGED <<i_defs, i_index>>

-----------------------------------------------------------------------------
(* normalized_path applied to one path.                                    *)

PathAtoms == {"Items", "[", "]", "0", "U+0663", "*"}

Paths == UNION {[1..k -> PathAtoms] : k \in 0..MaxPathLen}

\* Longer paths, with two bracketed atoms: one after the other, as for a
\* list in a list, and with a field between them.
Bracketed == {<<"[", a, "]">> : a \in PathAtoms}
TwoIndexPaths ==
    {a \o b : a, b \in Bracketed}
    \cup {<<"Items">> \o a \o <<".", "Items">> \o b : a, b \in Bracketed}

\* The digit strings a bracketed index is rewritten to.
IndexChoices == {<<"0">>, <<"1", "7">>, <<"U+FF11">>}

\* A bracketed integer index starts at position i of p: "[", one or more
\* digits, "]".
IndexAt(p, i) ==
    /\ p[i] = "["
    /\ \E j \in (i + 2)..Len(p) :
         p[j] = "]" /\ \A k \in (i + 1)..(j - 1) : IsDigit(p[k])

IndexEnd(p, i) ==
    CHOOSE j \in (i + 2)..Len(p) :
        p[j] = "]" /\ \A k \in (i + 1)..(j - 1) : IsDigit(p[k])

\* Position k lies in a bracketed integer index, after its "[".
InsideIndex(p, k) == \E i \in 1..(k - 1) : IndexAt(p, i) /\ k <= IndexEnd(p, i)

RECURSIVE WithIndicesFrom(_, _, _)
WithIndicesFrom(p, d, k) ==
    IF k > Len(p) THEN << >>
    ELSE (IF IndexAt(p, k) THEN <<"[">> \o d \o <<"]">>
          ELSE IF InsideIndex(p, k) THEN << >>
          ELSE <<p[k]>>) \o WithIndicesFrom(p, d, k + 1)

\* p with the inside of every bracketed integer index replaced by d and
\* every other atom kept.
WithIndices(p, d) == WithIndicesFrom(p, d, 1)

HasIndex(p) == \E i \in 1..Len(p) : IndexAt(p, i)

NormIdle ==
    /\ n_pc = "idle" /\ n_path = << >> /\ n_alt = << >> /\ n_out = << >>
    /\ n_altout = << >> /\ n_twice = << >>

NormInit ==
    /\ n_pc = "ready"
    /\ n_path \in Paths \cup TwoIndexPaths
    /\ n_alt = << >> /\ n_out = << >> /\ n_altout = << >> /\ n_twice = << >>

\* normalized_path of the path, of a path that differs from it only in its
\* indices, and of the normalized path itself.
Normalize ==
    /\ n_pc = "ready"
    /\ \E d \in IndexChoices : n_alt' = WithIndices(n_path, d)
    /\ n_out' = normalized_path(n_path)
    /\ n_altout' = normalized_path(n_alt')
    /\ n_twice' = normalized_path(n_out')
    /\ n_pc' = "done"
    /\ UNCHANGED n_path

-----------------------------------------------------------------------------
(* The schemas.  fetch_swagger returns the Swagger document of a schema    *)
(* key; the two documents below stand for the two the program downloads.   *)

K(s) == <<s>>
Text(s) == JStr(<<s>>)

TradeItemName == <<"GS1", ".", "Standard", ".", "TradeItem">>
PlainTradeItemName == <<"GS1", ".", "TradeItem">>
BrandName == <<"GS1", ".", "Standard", ".", "Brand">>
UnitCodeName == <<"GS1", ".", "Standard", ".", "UnitCode">>
LinkName == <<"GS1", ".", "Standard", ".", "CatalogueItemChildItemLink">>
CatalogueItemName == <<"GS1", ".", "Standard", ".", "CatalogueItem">>
MissingName == <<"GS1", ".", "Missing">>
EmptyObjectName == <<"GS1", ".", "Standard", ".", "EmptyObject">>
VoidName == <<"GS1", ".", "Standard", ".", "Void">>

TradeItemProps ==
    << <<K("Gtin"), PType("string")>>,
       <<K("Qty"), PType("integer")>>,
       <<K("Status"), PEnum("string", <<Text("ACTIVE"), Text("DISCONTINUED")>>)>>,
       <<K("Brand"), PRef(Pointer(BrandName))>>,
       <<K("Unit"), PRef(Pointer(K("UnitCode")))>>,
       <<K("Ghost"), PRef(Pointer(MissingName))>>,
       <<K("Items"), PArrayOf(Pointer(K("TradeItem")))>>,
       <<K("Codes"), PArrayOf(Pointer(UnitCodeName))>>,
       <<K("Lost"), PArrayOf(Pointer(MissingName))>>,
       <<K("Tags"), Prop("array", FALSE, << >>, FALSE, << >>, FALSE, << >>)>> >>

BrandProps ==
    << <<K("Name"), PType("string")>>,
       <<K("Score"), PType("number")>>,
       <<K("Owner"), PRef(Pointer(BrandName))>>,
       <<K("Product"), PRef(Pointer(TradeItemName))>> >>

LinkProps ==
    << <<K("Quantity"), PType("integer")>>,
       <<K("CatalogueItem"), PRef(Pointer(CatalogueItemName))>> >>

CatalogueItemProps ==
    << <<K("TradeItem"), PRef(Pointer(TradeItemName))>>,
       <<K("CatalogueItemChildItemLink"), PArrayOf(Pointer(LinkName))>> >>

UnitCodes == <<Text("KGM"), Text("LTR")>>

\* The Catalogue Item API: two definitions share the short name TradeItem,
\* and TradeItem, Brand and CatalogueItem refer to each other in cycles.
CatalogueSwagger ==
    << Def(PlainTradeItemName, << <<K("Gtin"), PType("integer")>> >>, << >>),
       Def(TradeItemName, TradeItemProps, << >>),
       Def(BrandName, BrandProps, << >>),
       Def(UnitCodeName, << >>, UnitCodes),
       Def(LinkName, LinkProps, << >>),
       Def(CatalogueItemName, CatalogueItemProps, << >>) >>

\* The Product API: no child links, a TradeItem without Qty, a definition
\* {"properties": {}}, an empty definition {} and a definition
\* {"type": "object"}.
ProductSwagger ==
    << Def(TradeItemName,
           << <<K("Gtin"), PType("string")>>,
              <<K("Status"), PEnum("string", <<Text("ACTIVE"), Text("DISCONTINUED")>>)>>,
              <<K("Brand"), PRef(Pointer(BrandName))>>,
              <<K("Items"), PArrayOf(Pointer(K("TradeItem")))>> >>, << >>),
       Def(BrandName, BrandProps, << >>),
       Def(UnitCodeName, << >>, UnitCodes),
       Definition(EmptyObjectName, TRUE, << >>, FALSE, << >>, {}),
       Def(VoidName, << >>, << >>),
       Definition(<<"GS1", ".", "Standard", ".", "Plain">>, FALSE, << >>, FALSE, << >>, {"type"}) >>

-----------------------------------------------------------------------------
(* The documents given to validate.                                        *)

\* Fields whose values hold no object that is validated further.
LeafFields ==
    {<<K("Gtin"), Text("A")>>, <<K("Gtin"), JInt(1)>>,
     <<K("Qty"), JInt(1)>>, <<K("Qty"), JBool(TRUE)>>, <<K("Qty"), JNull>>,
     <<K("Status"), Text("ACTIVE")>>, <<K("Status"), Text("PENDING")>>,
     <<K("Unit"), JDict(<< <<K("Value"), Text("KGM")>> >>)>>,
     <<K("Unit"), JDict(<< <<K("Value"), Text("XXX")>> >>)>>,
     <<K("Ghost"), JDict(<< <<K("Extra"), JInt(1)>> >>)>>,
     <<K("Codes"), JList(<<Text("KGM"), Text("XXX")>>)>>,
     <<K("Lost"), JList(<<JDict(<< <<K("Extra"), JInt(1)>> >>)>>)>>,
     <<K("Tags"), JList(<<Text("A")>>)>>,
     <<K("Extra"), JInt(1)>>,
     <<K("Extra"), JDict(<< <<K("Gtin"), JInt(1)>> >>)>>,
     <<K("Extra"), JList(<<JDict(<< <<K("Gtin"), JInt(1)>> >>)>>)>>,
     <<K("Brand"), Text("A")>>,
     <<K("Name"), Text("A")>>}

\* The field that follows another in an object of two fields.
TailField == <<K("Gtin"), JInt(1)>>

\* Objects of one field of F, alone or followed by TailField.
Objs(F) ==
    {JDict(<<f>>) : f \in F}
    \cup {JDict(<<f, TailField>>) : f \in {g \in F : g[1] # TailField[1]}}

\* A leaf field, or a field holding an object (or a list with an object) of
\* leaf fields.
NestedFields ==
    LeafFields
    \cup {<<K(k), o>> : k \in {"Brand", "Owner", "Product"}, o \in Objs(LeafFields)}
    \cup {<<K("Items"), JList(<<o>>)>> : o \in Objs(LeafFields)}
    \cup {<<K("Items"), JList(<<JInt(1), o>>)>> : o \in Objs(LeafFields)}

\* The innermost objects of a deep document.
DeepLeaves ==
    {JDict(<< >>), JDict(<< <<K("Gtin"), JInt(1)>> >>),
     JDict(<< <<K("Name"), Text("A")>> >>),
     JDict(<< <<K("Extra"), JDict(<< <<K("Gtin"), JInt(1)>> >>)>> >>)}

\* Objects nested along the references of the schema, which lead from
\* TradeItem to Brand and back and from each to itself: at most n objects
\* around an innermost one.
RECURSIVE Deep(_)
Deep(n) ==
    IF n = 0 THEN DeepLeaves
    ELSE DeepLeaves
         \cup {JDict(<< <<K(k), o>> >>) : k \in {"Brand", "Owner", "Product"}, o \in Deep(n - 1)}
         \cup {JDict(<< <<K("Items"), JList(<<JInt(1), o>>)>> >>) : o \in Deep(n - 1)}
         \cup {JDict(<< <<K("Brand"), o>>, TailField >>) : o \in Deep(n - 1)}

\* The innermost objects of a chain, validated against Brand: empty; a
\* field no definition declares; fields of the right and of the wrong type;
\* a TradeItem with a value that is no member of an inline enum, of a
\* referenced enum or of the enum of a list's elements, with a field whose
\* definition is missing, with a list of objects.
ChainLeaves ==
    {JDict(<< >>),
     JDict(<< <<K("Extra"), JInt(1)>> >>),
     JDict(<< <<K("Name"), Text("A")>> >>),
     JDict(<< <<K("Name"), JInt(1)>> >>),
     JDict(<< <<K("Score"), JInt(1)>> >>),
     JDict(<< <<K("Score"), Text("A")>> >>)}
    \cup {JDict(<< <<K("Product"), JDict(<<f>>)>> >>) :
             f \in {<<K("Status"), Text("PENDING")>>,
                    <<K("Unit"), JDict(<< <<K("Value"), Text("XXX")>> >>)>>,
                    <<K("Codes"), JList(<<Text("KGM"), Text("XXX")>>)>>,
                    <<K("Ghost"), JDict(<< >>)>>,
                    <<K("Items"), JList(<<JDict(<< >>)>>)>>}}

\* n objects around a leaf, each the only field of the one around it: a
\* TradeItem, its Brand, and the Brand's Owner, a Brand again, as often as
\* the document wants.
RECURSIVE ChainFrom(_, _, _)
ChainFrom(j, n, leaf) ==
    IF j > n THEN leaf
    ELSE JDict(<< <<K(IF j = 1 THEN "Brand" ELSE "Owner"),
                    ChainFrom(j + 1, n, leaf)>> >>)

\* Documents nested as deep as the stack allows, a little less and a
\* little more.
DeepChains ==
    {ChainFrom(1, n, leaf) :
        n \in (RecursionLimit - 5)..RecursionLimit, leaf \in ChainLeaves}

\* Values that are no object, and an empty object.
PlainRoots == {JNull, JInt(1), Text("A"), JList(<< >>), JDict(<< >>)}

\* The names a validation is requested for: the full name main passes, a
\* short name, a pointer, another definition and one the schema lacks.
RootDefNames ==
    {TradeItemName, K("TradeItem"), Pointer(BrandName), MissingName}

\* The paths validate_files passes.
RootPaths ==
    {K("TradeItem"), <<"CatalogueItemChildItemLink", "[", "0", "]">>}

-----------------------------------------------------------------------------
(* Validator.validate, call by call.  A frame of the stack is one call     *)
(* inside its loop over the object's fields: obj, the resolved definition  *)
(* def, path, the next field k, and, inside the loop over the elements of  *)
(* the field's list, the next element i (0 outside that loop) and the      *)
(* elements' definition cd.                                                *)

NoCall == [obj |-> JNull, def |-> << >>, path |-> << >>]
Call(obj, def, path) == [obj |-> obj, def |-> def, path |-> path]
Frame(obj, def, path) ==
    [obj |-> obj, def |-> def, path |-> path, k |-> 1, i |-> 0, cd |-> << >>]

Top == stack[Len(stack)]
SetTop(f) == [stack EXCEPT ![Len(stack)] = f]
Pop == SubSeq(stack, 1, Len(stack) - 1)

ValIdle ==
    /\ v_defs = << >> /\ v_index = EmptyIndex /\ v_obj = JNull /\ v_def = << >>
    /\ v_path = << >> /\ vpc = "idle" /\ call = NoCall /\ stack = << >>
    /\ issues = << >>

\* Validator(spec) is constructed and validate(obj, def_name, path) called.
Called ==
    /\ v_index = build_schema_index(v_defs)
    /\ vpc = "call"
    /\ call = Call(v_obj, v_def, v_path)
    /\ stack = << >>
    /\ issues = << >>

ValInit ==
    /\ \/ /\ v_defs = CatalogueSwagger
          /\ v_obj \in Objs(NestedFields) \cup Deep(MaxNest)
          /\ v_def = TradeItemName
          /\ v_path = K("TradeItem")
       \/ /\ v_defs \in {CatalogueSwagger, ProductSwagger}
          /\ v_obj \in PlainRoots \cup Objs(LeafFields)
          /\ v_def \in RootDefNames
          /\ v_path \in RootPaths
       \/ /\ v_defs = CatalogueSwagger
          /\ v_obj \in DeepChains
          /\ v_def = TradeItemName
          /\ v_path = K("TradeItem")
    /\ Called

\* The same, called on the deep documents, against each definition of the
\* schema's cycle.
ValInitDeep ==
    /\ v_defs = CatalogueSwagger
    /\ v_obj \in PlainRoots \cup Deep(MaxNest) \cup DeepChains
    /\ v_def \in {TradeItemName, Pointer(BrandName)}
    /\ v_path = K("TradeItem")
    /\ Called

\* RecursionError propagates through every call of validate: the calls
\* are unwound and no issues are returned.
RaiseRecursionError ==
    /\ vpc' = "RecursionError"
    /\ stack' = << >>
    /\ issues' = << >>
    /\ call' = NoCall

\* Lines 98-106: the entry of a call, up to the loop over the fields.  The
\* call's frame is the one above the frames of the calls on the stack.
VEnter ==
    /\ vpc = "call"
    /\ \E c \in CallOverheads :
         LET resolved == Resolved(v_defs, v_index, call.def)
             back == IF stack = << >> THEN "done" ELSE "run"
         IN IF Len(stack) + 1 + EnterFrames(v_defs, v_index, call.def, c)
                 > RecursionLimit
            THEN RaiseRecursionError
            ELSE /\ call' = NoCall
                 /\ IF resolved = << >>
                    THEN /\ issues' = Append(issues, NotFoundIssue(call.def, call.path))
                         /\ vpc' = back
                         /\ UNCHANGED stack
                    ELSE IF ~IsDict(call.obj)
                    THEN vpc' = back /\ UNCHANGED <<stack, issues>>
                    ELSE /\ stack' = Append(stack, Frame(call.obj, resolved, call.path))
                         /\ vpc' = "run"
                         /\ UNCHANGED issues
    /\ UNCHANGED <<v_defs, v_index, v_obj, v_def, v_path>>

\* Lines 110-162 for one field, up to its first recursive call.  The
\* field's operations run above the frame of the call on top of the stack.
VField ==
    /\ vpc = "run"
    /\ Top.i = 0
    /\ Top.k <= Len(Top.obj.kv)
    /\ \E c \in CallOverheads :
         LET key == Top.obj.kv[Top.k][1]
             val == Top.obj.kv[Top.k][2]
             child_def == ChildDef(v_defs, v_index,
                                   PropOf(get_props(v_defs, Top.def), key), val)
         IN IF Len(stack) + FieldFrames(v_defs, v_index, Top.def, key, val, c)
                 > RecursionLimit
            THEN RaiseRecursionError
            ELSE /\ issues' = issues
                        \o LocalIssues(v_defs, v_index, Top.def, key, val, Top.path)
                 /\ IF RecursesIntoValue(v_defs, v_index, Top.def, key, val)
                    THEN /\ stack' = SetTop([Top EXCEPT !.k = @ + 1])
                         /\ call' = Call(val, child_def, FullPath(Top.path, key))
                         /\ vpc' = "call"
                    ELSE IF RecursesIntoItems(v_defs, v_index, Top.def, key, val)
                    THEN /\ stack' = SetTop([Top EXCEPT !.i = 1, !.cd = child_def])
                         /\ UNCHANGED <<call, vpc>>
                    ELSE /\ stack' = SetTop([Top EXCEPT !.k = @ + 1])
                         /\ UNCHANGED <<call, vpc>>
    /\ UNCHANGED <<v_defs, v_index, v_obj, v_def, v_path>>

\* Lines 153-162 for one element of a list of objects.
VItem ==
    /\ vpc = "run"
    /\ Top.i >= 1
    /\ LET key == Top.obj.kv[Top.k][1]
           items == Top.obj.kv[Top.k][2].items
       IN /\ Top.i <= Len(items)
          /\ stack' = SetTop([Top EXCEPT !.i = @ + 1])
          /\ IF IsDict(items[Top.i])
             THEN /\ call' = Call(items[Top.i], Top.cd,
                                  ItemPath(FullPath(Top.path, key), Top.i - 1))
                  /\ vpc' = "call"
             ELSE UNCHANGED <<call, vpc>>
    /\ UNCHANGED <<issues, v_defs, v_index, v_obj, v_def, v_path>>

\* The loop over the elements ends; the loop over the fields goes on.
VItemsDone ==
    /\ vpc = "run"
    /\ Top.i >= 1
    /\ Top.i > Len(Top.obj.kv[Top.k][2].items)
    /\ stack' = SetTop([Top EXCEPT !.k = @ + 1, !.i = 0, !.cd = << >>])
    /\ UNCHANGED <<issues, call, vpc, v_defs, v_index, v_obj, v_def, v_path>>

\* Line 164: the loop over the fields ends and the call returns.
VReturn ==
    /\ vpc = "run"
    /\ Top.i = 0
    /\ Top.k > Len(Top.obj.kv)
    /\ stack' = Pop
    /\ vpc' = IF Len(stack) = 1 THEN "done" ELSE "run"
    /\ UNCHANGED <<issues, call, v_defs, v_index, v_obj, v_def, v_path>>

ValStep == VEnter \/ VField \/ VItem \/ VItemsDone \/ VReturn

ValNext ==
    \/ VEnter /\ UNCHANGED <<typeVars, indexVars, normVars, mainVars>>
    \/ VField /\ UNCHANGED <<typeVars, indexVars, normVars, mainVars>>
    \/ VItem /\ UNCHANGED <<typeVars, indexVars, normVars, mainVars>>
    \/ VItemsDone /\ UNCHANGED <<typeVars, indexVars, normVars, mainVars>>
    \/ VReturn /\ UNCHANGED <<typeVars, indexVars, normVars, mainVars>>

-----------------------------------------------------------------------------
(* The validation runner: validate_files, print_summary and main.          *)

\* for schema_key in SCHEMAS
SchemaKeys == <<"product", "catalogue">>

\* A Swagger document without a Standard TradeItem.
LegacySwagger ==
    << Def(PlainTradeItemName, << <<K("Gtin"), PType("integer")>> >>, << >>) >>

\* A path of the file system and what reading the file there gives: a
\* parsed document ("json"), text that is no JSON ("malformed":
\* json.JSONDecodeError), bytes that are no text ("undecodable":
\* UnicodeDecodeError) or no file at all ("missing": FileNotFoundError).
File(path, kind, doc) == [path |-> path, kind |-> kind, doc |-> doc]

\* Path(a).name: what follows the last "/".
FileName(path) ==
    IF \E i \in 1..Len(path) : path[i] = "/"
    THEN LET i == CHOOSE i \in 1..Len(path) :
                     path[i] = "/" /\ \A j \in (i + 1)..Len(path) : path[j] # "/"
         IN SubSeq(path, i + 1, Len(path))
    ELSE path

GoodItem == JDict(<< <<K("Gtin"), Text("A")>> >>)
BadItem == JDict(<< <<K("Gtin"), JInt(1)>> >>)
Link(fields) == <<K("CatalogueItemChildItemLink"), fields>>
Wrapped(item) == <<K("TradeItem"), item>>

\* The parsed documents of the input files.
Documents ==
    {JDict(<<Wrapped(GoodItem)>>),
     JDict(<<Wrapped(BadItem)>>),
     GoodItem,
     JDict(<<Wrapped(JInt(1))>>),
     JDict(<<Wrapped(GoodItem),
             Link(JList(<<JDict(<< <<K("Quantity"), JInt(1)>>,
                                   <<K("CatalogueItem"), JDict(<<Wrapped(BadItem)>>)>> >>)>>))>>),
     JDict(<<Wrapped(GoodItem),
             Link(JList(<<JDict(<< <<K("Quantity"), Text("A")>> >>),
                          JDict(<< <<K("CatalogueItem"), JDict(<< >>)>> >>)>>))>>),
     JDict(<<Wrapped(GoodItem), Link(JList(<< >>))>>),
     JDict(<<Wrapped(GoodItem), Link(JList(<<JInt(1)>>))>>),
     JDict(<<Wrapped(GoodItem),
             Link(JList(<<JDict(<< <<K("CatalogueItem"), JNull>> >>)>>))>>),
     JDict(<<Wrapped(GoodItem), Link(JInt(1))>>),
     JDict(<<Wrapped(GoodItem), Link(JDict(<< <<K("Quantity"), JInt(1)>> >>))>>),
     JDict(<<Wrapped(GoodItem), Link(Text("A"))>>),
     JDict(<<Wrapped(GoodItem), Link(Text("AB"))>>),
     JList(<< >>),
     JList(<<GoodItem>>),
     JInt(1)}

FilePaths ==
    {<<d, "/", n, ".", "json">> : d \in {"a", "b"}, n \in {"x", "y"}}

Files ==
    {File(p, "json", doc) : p \in FilePaths, doc \in Documents}
    \cup {File(p, kind, JNull) :
            p \in FilePaths, kind \in {"malformed", "undecodable", "missing"}}

\* At most n files with distinct paths.
FileSeqs(n) ==
    {fs \in UNION {[1..k -> Files] : k \in 0..n} :
        \A a, b \in 1..Len(fs) : a # b => fs[a].path # fs[b].path}

\* Lines 349-353: the first definition whose name ends with ".TradeItem"
\* and contains "Standard"; << >> when there is none.
IsStandardTradeItem(name) ==
    /\ Len(name) >= 2
    /\ name[Len(name) - 1] = "." /\ name[Len(name)] = "TradeItem"
    /\ HasStandard(name)

FindTradeItem(defs) ==
    IF \E i \in 1..Len(defs) : IsStandardTradeItem(defs[i].name)
    THEN defs[CHOOSE i \in 1..Len(defs) :
                /\ IsStandardTradeItem(defs[i].name)
                /\ \A j \in 1..(i - 1) : ~IsStandardTradeItem(defs[j].name)].name
    ELSE << >>

\* What a for loop over a JSON value iterates: the elements of a list, the
\* keys of a dict, the characters of a string.  A number or a boolean is
\* not iterable.
Iterable(v) == v.t \in {"list", "dict", "str"}
Elements(v) ==
    CASE v.t = "list" -> v.items
      [] v.t = "dict" -> [i \in 1..Len(v.kv) |-> JStr(v.kv[i][1])]
      [] v.t = "str" -> [i \in 1..Len(Chars(v.s)) |-> JStr(<<Chars(v.s)[i]>>)]

Outcome(exc, found) == [exc |-> exc, issues |-> found]

\* Lines 233-240 for the children n.., after the issues found so far.  The
\* outcome names the exception that ends the loop, "" when it ends normally.
RECURSIVE ChildrenFrom(_, _, _, _, _, _, _)
ChildrenFrom(defs, index, tidef, child_def, children, n, found) ==
    IF n > Len(children) THEN Outcome("", found)
    ELSE LET child == children[n]
             child_path == <<"CatalogueItemChildItemLink", "[">> \o Digits(n - 1) \o <<"]">>
             found1 == found \o validate(defs, index, child, child_def, child_path)
         IN IF ~IsDict(child) THEN Outcome("AttributeError", found1)
            ELSE LET item == IF HasKey(child, K("CatalogueItem"))
                             THEN Get(child, K("CatalogueItem"))
                             ELSE JDict(<< >>)
                 IN IF ~IsDict(item) THEN Outcome("AttributeError", found1)
                    ELSE LET child_ti == IF HasKey(item, K("TradeItem"))
                                         THEN Get(item, K("TradeItem"))
                                         ELSE JNull
                             found2 ==
                                 IF Truthy(child_ti)
                                 THEN found1 \o validate(defs, index, child_ti, tidef,
                                          child_path \o <<".", "CatalogueItem", ".", "TradeItem">>)
                                 ELSE found1
                         IN ChildrenFrom(defs, index, tidef, child_def, children,
                                         n + 1, found2)

\* Lines 226-240: the body of validate_files' loop for a parsed document.
DocOutcome(defs, index, tidef, doc) ==
    IF ~IsDict(doc) THEN Outcome("AttributeError", << >>)
    ELSE LET trade_item == IF HasKey(doc, K("TradeItem"))
                           THEN Get(doc, K("TradeItem")) ELSE doc
             found == validate(defs, index, trade_item, tidef, K("TradeItem"))
             children == IF HasKey(doc, K("CatalogueItemChildItemLink"))
                         THEN Get(doc, K("CatalogueItemChildItemLink"))
                         ELSE JList(<< >>)
             child_def == resolve(defs, index, K("CatalogueItemChildItemLink"))
         IN IF child_def # << >> /\ Truthy(children)
            THEN (IF ~Iterable(children) THEN Outcome("TypeError", found)
                  ELSE ChildrenFrom(defs, index, tidef, child_def,
                                    Elements(children), 1, found))
            ELSE Outcome("", found)

ParseErrorIssue == Issue("PARSE_ERROR", << >>, <<"JSONDecodeError">>)

\* Lines 219-242: the body of validate_files' loop for one file.  The
\* documents of the files nest far less deep than the recursion limit.
FileOutcome(defs, index, tidef, file) ==
    CASE file.kind = "malformed" -> Outcome("", <<ParseErrorIssue>>)
      [] file.kind = "undecodable" -> Outcome("UnicodeDecodeError", << >>)
      [] file.kind = "missing" -> Outcome("FileNotFoundError", << >>)
      [] file.kind = "json" -> DocOutcome(defs, index, tidef, file.doc)

NoResults == [n \in {} |-> << >>]
\* results[fpath.name] = issues
Record(res, name, found) ==
    [n \in (DOMAIN res) \cup {name} |-> IF n = name THEN found ELSE res[n]]

\* print_summary's return value: invalid == 0
Success(res) == \A n \in DOMAIN res : res[n] = << >>

\* A cache file and what a URL serves.
Absent == [present |-> FALSE, spec |-> << >>]
Have(spec) == [present |-> TRUE, spec |-> spec]
Down == [up |-> FALSE, spec |-> << >>]
Serve(spec) == [up |-> TRUE, spec |-> spec]
Both(p, c) == [product |-> p, catalogue |-> c]

\* The firstbase_json directory: whether it exists and its *.json files,
\* sorted.
NoDirectory == [exists |-> FALSE, files |-> << >>]
Directory(fs) == [exists |-> TRUE, files |-> fs]

NoDump == << >>

MainIdle ==
    /\ args = << >> /\ verbose = FALSE
    /\ cache = Both(Absent, Absent) /\ remote = Both(Down, Down)
    /\ firstbase = NoDirectory /\ dumped = NoDump
    /\ pc = "idle" /\ swagger = Both(<< >>, << >>) /\ skey = 0 /\ ti_def = << >>
    /\ files = << >> /\ fidx = 0 /\ results = NoResults /\ all_success = TRUE
    /\ status = -1

\* An argument that names no file.
Word(s) == File(<<s>>, "missing", JNull)

\* The options before the files, the --dump-schema mode and its schema name.
Prefixes ==
    {<< >>, <<Word("-v")>>, <<Word("--verbose")>>, <<Word("--refresh")>>,
     <<Word("-v"), Word("--refresh")>>, <<Word("--refresh"), Word("--refresh")>>}
Modes ==
    {<< >>, <<Word("--dump-schema")>>}
    \cup {<<Word("--dump-schema"), Word(n)>> : n \in {"TradeItem", "tradeitem", "Brand", "EmptyObject", "Void", "Plain", "Nothing"}}

\* The caches and the servers: caches of both schemas; a cache without a
\* Standard TradeItem that a download would replace, of the first schema
\* and of the second; no caches; no caches and no server; a server without
\* a Standard TradeItem.
Environments ==
    {[cache |-> Both(Have(ProductSwagger), Have(CatalogueSwagger)),
      remote |-> Both(Serve(ProductSwagger), Serve(CatalogueSwagger))],
     [cache |-> Both(Have(LegacySwagger), Have(CatalogueSwagger)),
      remote |-> Both(Serve(ProductSwagger), Serve(CatalogueSwagger))],
     [cache |-> Both(Have(ProductSwagger), Have(LegacySwagger)),
      remote |-> Both(Serve(ProductSwagger), Serve(CatalogueSwagger))],
     [cache |-> Both(Absent, Absent),
      remote |-> Both(Serve(ProductSwagger), Serve(CatalogueSwagger))],
     [cache |-> Both(Have(ProductSwagger), Absent),
      remote |-> Both(Down, Down)],
     [cache |-> Both(Absent, Absent),
      remote |-> Both(Serve(LegacySwagger), Serve(CatalogueSwagger))]}

\* The files of the firstbase_json directory.
DirectoryFiles(n) ==
    {File(<<"firstbase_json", "/", n, ".", "json">>, "json", doc) :
        doc \in {JDict(<<Wrapped(GoodItem)>>), JDict(<<Wrapped(BadItem)>>), JList(<< >>)}}
    \cup {File(<<"firstbase_json", "/", n, ".", "json">>, "malformed", JNull)}
Directories ==
    {NoDirectory, Directory(<< >>)}
    \cup {Directory(<<x>>) : x \in DirectoryFiles("x")}
    \cup {Directory(<<x, y>>) : x \in DirectoryFiles("x"), y \in DirectoryFiles("y")}

\* The files named together with options.
OptionFiles ==
    {<<File(<<"a", "/", "x", ".", "json">>, "json", JDict(<<Wrapped(GoodItem)>>))>>,
     <<File(<<"a", "/", "x", ".", "json">>, "json", JDict(<<Wrapped(BadItem)>>))>>,
     <<File(<<"a", "/", "x", ".", "json">>, "json", JDict(<<Wrapped(BadItem)>>)),
       Word("-v")>>,
     <<File(<<"a", "/", "x", ".", "json">>, "json", JDict(<<Wrapped(BadItem)>>)),
       Word("--dump-schema"), Word("TradeItem")>>}

\* main starts: sys.argv[1:], the cache files, the servers and the
\* directory; status is the exit status, -1 while the program runs.  The
\* command line is files alone, or options with a file or without one.
MainInit ==
    /\ \/ /\ args \in FileSeqs(MaxFiles)
          /\ \E e \in Environments :
                e.cache.product.present /\ e.cache.catalogue.present
                /\ cache = e.cache /\ remote = e.remote
          /\ firstbase = NoDirectory
       \/ /\ args \in {p \o m \o f : p \in Prefixes, m \in Modes, f \in OptionFiles}
          /\ \E e \in Environments : cache = e.cache /\ remote = e.remote
          /\ firstbase = NoDirectory
       \/ /\ args \in {p \o m : p \in Prefixes, m \in Modes}
          /\ \E e \in Environments : cache = e.cache /\ remote = e.remote
          /\ firstbase \in Directories
    /\ verbose = FALSE
    /\ dumped = NoDump
    /\ pc = "start"
    /\ swagger = Both(<< >>, << >>)
    /\ skey = 0
    /\ ti_def = << >>
    /\ files = << >>
    /\ fidx = 0
    /\ results = NoResults
    /\ all_success = TRUE
    /\ status = -1

IsVerbose(a) == a.path \in {<<"--verbose">>, <<"-v">>}
IsRefresh(a) == a.path = <<"--refresh">>
\* args.remove("--refresh"): the first one is removed.
RemoveRefresh(as) ==
    LET i == CHOOSE i \in 1..Len(as) :
                 IsRefresh(as[i]) /\ \A j \in 1..(i - 1) : ~IsRefresh(as[j])
    IN SubSeq(as, 1, i - 1) \o SubSeq(as, i + 1, Len(as))

\* Lines 314-328: the options are taken from the command line, --refresh
\* unlinks the cache files, and the mode is chosen.
ParseArgs ==
    /\ pc = "start"
    /\ verbose' = \E i \in 1..Len(args) : IsVerbose(args[i])
    /\ LET kept == SelectSeq(args, LAMBDA a : ~IsVerbose(a))
           refresh == \E i \in 1..Len(kept) : IsRefresh(kept[i])
           rest == IF refresh THEN RemoveRefresh(kept) ELSE kept
       IN /\ args' = rest
          /\ cache' = IF refresh THEN Both(Absent, Absent) ELSE cache
          /\ pc' = IF rest # << >> /\ rest[1].path = <<"--dump-schema">>
                   THEN "dump" ELSE "load"
    /\ skey' = 1
    /\ UNCHANGED <<remote, firstbase, dumped, swagger, ti_def, files, fidx,
                   results, all_success, status>>
    /\ UNCHANGED <<v_defs, v_index>>

\* fetch_swagger(key): the cache file when there is one, else the download,
\* which is written to the cache file.
CanFetch(key) == cache[key].present \/ remote[key].up
fetch_swagger(key) ==
    IF cache[key].present THEN cache[key].spec ELSE remote[key].spec
CacheAfterFetch(key) == [cache EXCEPT ![key] = Have(fetch_swagger(key))]

\* Lines 43-60, without a cache file and with the server out of reach:
\* urlopen raises, nothing catches it, the interpreter exits with status 1.
FetchRaises ==
    /\ pc \in {"dump", "load"}
    /\ skey <= Len(SchemaKeys)
    /\ ~CanFetch(SchemaKeys[skey])
    /\ pc' = "unreachable"
    /\ status' = 1
    /\ UNCHANGED <<args, verbose, cache, remote, firstbase, dumped, swagger, skey,
                   ti_def, files, fidx, results, all_success>>
    /\ UNCHANGED <<v_defs, v_index>>

\* Lines 330-331: specs[key] = fetch_swagger(key)
DumpFetch ==
    /\ pc = "dump"
    /\ skey <= Len(SchemaKeys)
    /\ CanFetch(SchemaKeys[skey])
    /\ swagger' = [swagger EXCEPT ![SchemaKeys[skey]] = fetch_swagger(SchemaKeys[skey])]
    /\ cache' = CacheAfterFetch(SchemaKeys[skey])
    /\ skey' = skey + 1
    /\ UNCHANGED <<args, verbose, remote, firstbase, dumped, pc, ti_def, files, fidx,
                   results, all_success, status>>
    /\ UNCHANGED <<v_defs, v_index>>

\* What dump_schema prints for one schema: the definition found under the
\* name when it is a dict with a key (line 298), else the names that
\* contain the name (ten at most), or the number of definitions.
Printed(key, kind, full, names, count) ==
    [key |-> key, kind |-> kind, full |-> full, names |-> names, count |-> count]
FirstTen(seq) == SubSeq(seq, 1, IF Len(seq) < 10 THEN Len(seq) ELSE 10)
DumpOne(key, spec, name) ==
    LET index == build_schema_index(spec)
        full == IF InIndex(index, name) /\ index[name] # << >> THEN index[name] ELSE name
        found == InDefs(spec, full) /\ NonEmptyDict(DefOf(spec, full))
        matches == SelectSeq([i \in 1..Len(spec) |-> spec[i].name],
                             LAMBDA n : Contains(Lower(n), Lower(name)))
    IN IF found THEN Printed(key, "definition", full, << >>, 0)
       ELSE IF matches # << >> THEN Printed(key, "did you mean", << >>, FirstTen(matches), 0)
       ELSE Printed(key, "not found", << >>, << >>, Len(spec))

dump_schema(specs, name) ==
    [k \in 1..Len(SchemaKeys) |-> DumpOne(SchemaKeys[k], specs[SchemaKeys[k]], name)]

Usage == <<Printed("", "usage", << >>, << >>, 0)>>

\* Lines 332-336: the definition is printed, or the usage; main returns and
\* the interpreter exits with status 0.
DumpSchema ==
    /\ pc = "dump"
    /\ skey > Len(SchemaKeys)
    /\ dumped' = IF Len(args) > 1 THEN dump_schema(swagger, args[2].path) ELSE Usage
    /\ pc' = "exited"
    /\ status' = 0
    /\ UNCHANGED <<args, verbose, cache, remote, firstbase, swagger, skey, ti_def,
                   files, fidx, results, all_success>>
    /\ UNCHANGED <<v_defs, v_index>>

\* Lines 343-353: the schema is fetched, the Validator built and the
\* TradeItem definition looked up.
LoadSchema ==
    /\ pc = "load"
    /\ CanFetch(SchemaKeys[skey])
    /\ FindTradeItem(fetch_swagger(SchemaKeys[skey])) # << >>
    /\ swagger' = [swagger EXCEPT ![SchemaKeys[skey]] = fetch_swagger(SchemaKeys[skey])]
    /\ cache' = CacheAfterFetch(SchemaKeys[skey])
    /\ v_defs' = fetch_swagger(SchemaKeys[skey])
    /\ v_index' = build_schema_index(fetch_swagger(SchemaKeys[skey]))
    /\ ti_def' = FindTradeItem(fetch_swagger(SchemaKeys[skey]))
    /\ pc' = IF skey = 1 THEN "collect" ELSE "validate"
    /\ fidx' = 1
    /\ results' = NoResults
    /\ UNCHANGED <<args, verbose, remote, firstbase, dumped, skey, files,
                   all_success, status>>

\* Lines 349-356: ti_def is reset to None, no definition of the schema is a
\* Standard TradeItem, sys.exit(1).
NoTradeItem ==
    /\ pc = "load"
    /\ CanFetch(SchemaKeys[skey])
    /\ FindTradeItem(fetch_swagger(SchemaKeys[skey])) = << >>
    /\ swagger' = [swagger EXCEPT ![SchemaKeys[skey]] = fetch_swagger(SchemaKeys[skey])]
    /\ cache' = CacheAfterFetch(SchemaKeys[skey])
    /\ v_defs' = fetch_swagger(SchemaKeys[skey])
    /\ v_index' = build_schema_index(fetch_swagger(SchemaKeys[skey]))
    /\ ti_def' = << >>
    /\ pc' = "exited"
    /\ status' = 1
    /\ UNCHANGED <<args, verbose, remote, firstbase, dumped, skey, files,
                   fidx, results, all_success>>

\* json_args = [a for a in args if a.endswith(".json")]
json_args(as) == SelectSeq(as, LAMBDA a : EndsWith(a.path, <<".", "json">>))

\* Lines 362-376: the files are collected, once: the .json arguments, or
\* without any the files of the directory; sys.exit(1) without a directory
\* and without files.
CollectFiles ==
    /\ pc = "collect"
    /\ LET found == IF json_args(args) # << >> THEN json_args(args)
                    ELSE firstbase.files
       IN IF found = << >>
          THEN pc' = "exited" /\ status' = 1 /\ UNCHANGED files
          ELSE pc' = "validate" /\ files' = found /\ UNCHANGED status
    /\ UNCHANGED <<args, verbose, cache, remote, firstbase, dumped, swagger, skey,
                   ti_def, fidx, results, all_success>>
    /\ UNCHANGED <<v_defs, v_index>>

\* validate_files' loop for the file fidx: its issues are recorded under its
\* base name.
ValidateFile ==
    /\ pc = "validate"
    /\ fidx <= Len(files)
    /\ FileOutcome(v_defs, v_index, ti_def, files[fidx]).exc = ""
    /\ results' = Record(results, FileName(files[fidx].path),
                         FileOutcome(v_defs, v_index, ti_def, files[fidx]).issues)
    /\ fidx' = fidx + 1
    /\ UNCHANGED <<args, verbose, cache, remote, firstbase, dumped, pc, swagger, skey,
                   ti_def, files, all_success, status>>
    /\ UNCHANGED <<v_defs, v_index>>

\* validate_files' loop for the file fidx raises an exception nothing
\* catches: the interpreter prints the traceback and exits with status 1.
FileRaises ==
    /\ pc = "validate"
    /\ fidx <= Len(files)
    /\ FileOutcome(v_defs, v_index, ti_def, files[fidx]).exc # ""
    /\ pc' = "crashed"
    /\ status' = 1
    /\ UNCHANGED <<args, verbose, cache, remote, firstbase, dumped, swagger, skey,
                   ti_def, files, fidx, results, all_success>>
    /\ UNCHANGED <<v_defs, v_index>>

\* Lines 243 and 378-381: validate_files returns, print_summary reports.
PrintSummary ==
    /\ pc = "validate"
    /\ fidx > Len(files)
    /\ all_success' = (all_success /\ Success(results))
    /\ IF skey < Len(SchemaKeys)
       THEN pc' = "load" /\ skey' = skey + 1
       ELSE pc' = "finish" /\ UNCHANGED skey
    /\ UNCHANGED <<args, verbose, cache, remote, firstbase, dumped, swagger, ti_def,
                   files, fidx, results, status>>
    /\ UNCHANGED <<v_defs, v_index>>

\* Line 383: sys.exit(0 if all_success else 1)
Exit ==
    /\ pc = "finish"
    /\ status' = (IF all_success THEN 0 ELSE 1)
    /\ pc' = "exited"
    /\ UNCHANGED <<args, verbose, cache, remote, firstbase, dumped, swagger, skey,
                   ti_def, files, fidx, results, all_success>>
    /\ UNCHANGED <<v_defs, v_index>>

restOfValidator == <<v_obj, v_def, v_path, vpc, call, stack, issues>>

Next ==
    \/ ParseArgs /\ UNCHANGED <<typeVars, indexVars, normVars, restOfValidator>>
    \/ FetchRaises /\ UNCHANGED <<typeVars, indexVars, normVars, restOfValidator>>
    \/ DumpFetch /\ UNCHANGED <<typeVars, indexVars, normVars, restOfValidator>>
    \/ DumpSchema /\ UNCHANGED <<typeVars, indexVars, normVars, restOfValidator>>
    \/ LoadSchema /\ UNCHANGED <<typeVars, indexVars, normVars, restOfValidator>>
    \/ NoTradeItem /\ UNCHANGED <<typeVars, indexVars, normVars, restOfValidator>>
    \/ CollectFiles /\ UNCHANGED <<typeVars, indexVars, normVars, restOfValidator>>
    \/ ValidateFile /\ UNCHANGED <<typeVars, indexVars, normVars, restOfValidator>>
    \/ FileRaises /\ UNCHANGED <<typeVars, indexVars, normVars, restOfValidator>>
    \/ PrintSummary /\ UNCHANGED <<typeVars, indexVars, normVars, restOfValidator>>
    \/ Exit /\ UNCHANGED <<typeVars, indexVars, normVars, restOfValidator>>

-----------------------------------------------------------------------------
(* Specifications.                                                         *)

Init == TypeIdle /\ IndexIdle /\ NormIdle /\ ValIdle /\ MainInit
Spec == Init /\ [][Next]_vars

InitValidate == TypeIdle /\ IndexIdle /\ NormIdle /\ ValInit /\ MainIdle
SpecValidate == InitValidate /\ [][ValNext]_vars
\* validate runs to its end: a call that can take a step takes it.
InitValidateDeep == TypeIdle /\ IndexIdle /\ NormIdle /\ ValInitDeep /\ MainIdle
SpecValidateFair == InitValidateDeep /\ [][ValNext]_vars /\ WF_vars(ValNext)

\* The run of validate ends with the issues validate returns.
StepsAgree ==
    vpc = "done" => issues = validate(v_defs, v_index, v_obj, v_def, v_path)

TypeNext == CheckType /\ UNCHANGED <<indexVars, normVars, valVars, mainVars>>
InitType == TypeInit /\ IndexIdle /\ NormIdle /\ ValIdle /\ MainIdle
SpecType == InitType /\ [][TypeNext]_vars

IndexNext ==
    \/ BuildIndex /\ UNCHANGED <<typeVars, normVars, valVars, mainVars>>
    \/ Resolve /\ UNCHANGED <<typeVars, normVars, valVars, mainVars>>
InitIndex == TypeIdle /\ IndexInit /\ NormIdle /\ ValIdle /\ MainIdle
SpecIndex == InitIndex /\ [][IndexNext]_vars

NormNext == Normalize /\ UNCHANGED <<typeVars, indexVars, valVars, mainVars>>
InitNorm == TypeIdle /\ IndexIdle /\ NormInit /\ ValIdle /\ MainIdle
SpecNorm == InitNorm /\ [][NormNext]_vars

-----------------------------------------------------------------------------
(* Claims.                                                                 *)

IsPrefix(p, q) == Len(p) <= Len(q) /\ SubSeq(q, 1, Len(p)) = p
StrictlyBelow(p, q) == IsPrefix(p, q) /\ Len(q) > Len(p)
\* The issues, among found, at the path p.
IssuesAt(found, p) == {n \in 1..Len(found) : found[n].path = p}
IssuesBelow(found, p) == {n \in 1..Len(found) : StrictlyBelow(p, found[n].path)}

\* C1: a boolean value checked against a property declared integer or number
\* gives exactly one TYPE_MISMATCH issue at the field's path, with the
\* message 'expected <type>, got boolean'.
C1_BooleanIsMismatch ==
    (t_pc = "done" /\ t_val.t = "bool" /\ t_spec.type \in {"integer", "number"})
        => t_out = <<Issue("TYPE_MISMATCH", t_path,
                           <<"expected ", t_spec.type, ", got boolean">>)>>

\* validate is at a field its definition does not declare.
AtUnknownField ==
    /\ vpc = "run" /\ stack # << >>
    /\ Top.i = 0 /\ Top.k <= Len(Top.obj.kv)
    /\ ~Allowed(get_props(v_defs, Top.def), Top.obj.kv[Top.k][1])

\* The step for an unknown field appends one UNKNOWN_FIELD issue at
\* path + "." + field, makes no recursive call, and leaves the call at the
\* next field of the same object.
UnknownFieldStep ==
    AtUnknownField =>
        /\ Len(issues') = Len(issues) + 1
        /\ SubSeq(issues', 1, Len(issues)) = issues
        /\ issues'[Len(issues')].category = "UNKNOWN_FIELD"
        /\ issues'[Len(issues')].path = Top.path \o <<".">> \o Top.obj.kv[Top.k][1]
        /\ vpc' = "run" /\ call' = NoCall
        /\ Len(stack') = Len(stack)
        /\ stack'[Len(stack)] = [Top EXCEPT !.k = @ + 1]

\* When validate has returned: each undeclared field of the validated object
\* has one issue at its path, an UNKNOWN_FIELD, and none below it, and the
\* type issue of each declared field is among the issues.
UnknownFieldsReported ==
    (vpc = "done" /\ IsDict(v_obj) /\ Resolved(v_defs, v_index, v_def) # << >>) =>
        LET props == get_props(v_defs, Resolved(v_defs, v_index, v_def))
        IN \A k \in 1..Len(v_obj.kv) :
             LET key == v_obj.kv[k][1]
                 val == v_obj.kv[k][2]
                 fp == v_path \o <<".">> \o key
             IN IF ~Allowed(props, key)
                THEN /\ Cardinality(IssuesAt(issues, fp)) = 1
                     /\ \A n \in IssuesAt(issues, fp) : issues[n].category = "UNKNOWN_FIELD"
                     /\ IssuesBelow(issues, fp) = {}
                ELSE \A m \in 1..Len(check_type(val, PropOf(props, key), fp)) :
                        \E n \in IssuesAt(issues, fp) :
                            issues[n] = check_type(val, PropOf(props, key), fp)[m]

Unresolved(props, key, val) ==
    /\ Allowed(props, key)
    /\ \/ RefBranch(PropOf(props, key), val)
       \/ ArrayBranch(PropOf(props, key), val) /\ PropOf(props, key).itemsHasRef
    /\ ChildDef(v_defs, v_index, PropOf(props, key), val) = << >>

\* C3: a definition that does not resolve, requested as the root or
\* referenced by a field's $ref or items.$ref, gives exactly one
\* SCHEMA_NOT_FOUND issue at the path of the value and nothing below it.
C3_SchemaNotFound ==
    vpc = "done" =>
        IF Resolved(v_defs, v_index, v_def) = << >>
        THEN issues = <<NotFoundIssue(v_def, v_path)>>
        ELSE IsDict(v_obj) =>
               \A k \in 1..Len(v_obj.kv) :
                  LET key == v_obj.kv[k][1]
                      fp == v_path \o <<".">> \o key
                  IN Unresolved(get_props(v_defs, Resolved(v_defs, v_index, v_def)),
                                key, v_obj.kv[k][2])
                     => /\ Cardinality(IssuesAt(issues, fp)) = 1
                        /\ \A n \in IssuesAt(issues, fp) :
                              issues[n].category = "SCHEMA_NOT_FOUND"
                        /\ IssuesBelow(issues, fp) = {}

\* The definitions of defs with the short name s.
WithShort(defs, s) == {i \in 1..Len(defs) : ShortName(defs[i].name) = s}
MarkedWithShort(defs, s) == {i \in WithShort(defs, s) : HasStandard(defs[i].name)}
\* Among the definitions with the short name s, exactly one has the marker
\* and another has not.
OneMarked(defs, s) ==
    /\ Cardinality(MarkedWithShort(defs, s)) = 1
    /\ Cardinality(WithShort(defs, s)) >= 2
TheMarked(defs, s) == defs[CHOOSE i \in MarkedWithShort(defs, s) : TRUE].name
\* The query is a bare short name: no pointer prefix, no dot.
IsShortQuery(q) == q # << >> /\ \A i \in 1..Len(q) : q[i] \notin {".", "#/definitions/"}

\* C4 as stated: resolve applied to the short name returns the marked
\* definition, whatever the shape of the unmarked name.
C4_ResolvesToMarked ==
    (i_pc = "resolved" /\ IsShortQuery(i_query) /\ OneMarked(i_defs, i_query))
        => i_res = TheMarked(i_defs, i_query)

\* C4, amended: the index maps the short name to the marked definition, and
\* resolve returns it unless the short name is itself the name of a
\* definition, which resolve then returns.
C4_ResolvesToMarkedUnlessExact ==
    (i_pc = "resolved" /\ IsShortQuery(i_query) /\ OneMarked(i_defs, i_query))
        => /\ i_index[i_query] = TheMarked(i_defs, i_query)
           /\ i_res = IF InDefs(i_defs, i_query) THEN i_query
                      ELSE TheMarked(i_defs, i_query)

\* C4's case: the unmarked definition comes first, the marked one replaces
\* it in the index, and resolve returns the marked one.
C4_Witness ==
    /\ i_pc = "resolved" /\ IsShortQuery(i_query) /\ OneMarked(i_defs, i_query)
    /\ \A i \in MarkedWithShort(i_defs, i_query) :
          \E j \in WithShort(i_defs, i_query) : j < i
    /\ ~InDefs(i_defs, i_query)
    /\ i_res = TheMarked(i_defs, i_query)

\* The loop body as C5 describes it: an entry is replaced only when it lacks
\* the marker and the current name has it.
ReplaceOnlyUnmarked(index, name) ==
    IF ~InIndex(index, ShortName(name)) THEN Put(index, ShortName(name), name)
    ELSE IF ~HasStandard(index[ShortName(name)]) /\ HasStandard(name)
         THEN Put(index, ShortName(name), name)
    ELSE index

\* C5: at every definition, build_schema_index replaces an existing entry
\* only when the entry lacks the marker and the current name has it;
\* otherwise the first-seen definition stays.
C5_ReplacesOnlyUnmarked ==
    i_pc # "ready" =>
        /\ i_index = IndexAfter(i_defs, Len(i_defs))
        /\ \A n \in 1..Len(i_defs) :
              IndexAfter(i_defs, n)
                  = ReplaceOnlyUnmarked(IndexAfter(i_defs, n - 1), i_defs[n].name)

\* What validate_files finds for a file under the schema of a key.
OwnOutcome(key, file) ==
    FileOutcome(swagger[key], build_schema_index(swagger[key]),
                FindTradeItem(swagger[key]), file)

\* validate_files has returned.
Returned == pc = "validate" /\ fidx > Len(files)

\* C6: the run exits with status 0 only if every input document produced
\* no issue under every schema, and the result of validate_files holds a
\* separate issue sequence for each input document.
C6_SuccessOnlyIfClean ==
    /\ (pc = "exited" /\ status = 0 /\ dumped = NoDump) =>
          \A i \in 1..Len(files) : \A s \in 1..Len(SchemaKeys) :
              OwnOutcome(SchemaKeys[s], files[i]) = Outcome("", << >>)
    /\ Returned =>
          /\ Cardinality(DOMAIN results) = Len(files)
          /\ \A i \in 1..Len(files) :
                results[FileName(files[i].path)]
                    = OwnOutcome(SchemaKeys[skey], files[i]).issues

\* C7: a file that cannot be parsed has exactly one issue recorded, a
\* PARSE_ERROR; reading it ends no run, and the files after it get their own
\* entries.
C7_ParseErrorRecorded ==
    \A i \in 1..Len(files) :
        files[i].kind \in {"malformed", "undecodable"} =>
            /\ (pc = "crashed" => fidx # i)
            /\ (pc = "validate" /\ fidx > i) =>
                  /\ FileName(files[i].path) \in DOMAIN results
                  /\ Len(results[FileName(files[i].path)]) = 1
                  /\ results[FileName(files[i].path)][1].category = "PARSE_ERROR"
            /\ Returned =>
                  \A j \in (i + 1)..Len(files) :
                      /\ FileName(files[j].path) \in DOMAIN results
                      /\ files[j].kind = "json" =>
                            results[FileName(files[j].path)]
                                = OwnOutcome(SchemaKeys[skey], files[j]).issues

\* C8's case: a path with a bracketed integer index, normalized, and the
\* same path with other, longer index values.
C8_Witness ==
    /\ n_pc = "done" /\ HasIndex(n_path)
    /\ n_alt # n_path /\ n_out # n_path /\ n_out # n_alt
    /\ Len(n_alt) > Len(n_path)

\* C8: normalized_path replaces every bracketed integer index by [*] and
\* changes nothing else; it is idempotent, and two paths that differ only
\* in their indices have the same normalized path.
C8_NormalizedPath ==
    n_pc = "done" =>
        /\ n_out = WithIndices(n_path, <<"*">>)
        /\ n_twice = n_out
        /\ n_altout = n_out

\* The nesting depth of a JSON value: 0 for a scalar, one more than its
\* deepest element for a list or an object.
RECURSIVE Nesting(_)
Nesting(v) ==
    IF IsDict(v)
    THEN 1 + (IF v.kv = << >> THEN 0
              ELSE LET ds == {Nesting(v.kv[i][2]) : i \in 1..Len(v.kv)}
                   IN CHOOSE d \in ds : \A e \in ds : e <= d)
    ELSE IF IsList(v)
    THEN 1 + (IF v.items = << >> THEN 0
              ELSE LET ds == {Nesting(v.items[i]) : i \in 1..Len(v.items)}
                   IN CHOOSE d \in ds : \A e \in ds : e <= d)
    ELSE 0

\* a is a value strictly inside b.
RECURSIVE Inside(_, _)
Inside(a, b) ==
    IF IsDict(b)
    THEN \E i \in 1..Len(b.kv) : b.kv[i][2] = a \/ Inside(a, b.kv[i][2])
    ELSE IF IsList(b)
    THEN \E i \in 1..Len(b.items) : b.items[i] = a \/ Inside(a, b.items[i])
    ELSE FALSE

\* The calls of validate that have not returned.
ActiveCalls == Len(stack) + (IF vpc = "call" THEN 1 ELSE 0)

\* Every call but the outermost is made on a value strictly inside the
\* object of the call that makes it, so the calls are no deeper than the
\* document.
CallsNested ==
    /\ ActiveCalls <= (IF Nesting(v_obj) = 0 THEN 1 ELSE Nesting(v_obj))
    /\ stack # << >> => stack[1].obj = v_obj
    /\ \A j \in 2..Len(stack) : Inside(stack[j].obj, stack[j - 1].obj)
    /\ (vpc = "call" /\ stack # << >>) => Inside(call.obj, Top.obj)

\* validate has not ended by an exception.
NotRaised == vpc # "RecursionError"

C10_NeverRaises ==
    pc = "crashed" => files[fidx].kind # "json"

=============================================================================
